---- MODULE Spec2Model ----
(***************************************************************************)
(* The edit_wsl tool of the WSL agent (src/agent/src/main.rs): a batch of  *)
(* search/replace operations is applied to an in-memory copy of the WSL    *)
(* file, the result is normalised, validated and, only if the validator    *)
(* reports no error, written back.  SpecIO adds the failures of storage,   *)
(* SpecMain the loop of main around the tools: the steps of the agent, the *)
(* tool calls of a request, read_wsl, and the end of the run.              *)
(*                                                                         *)
(* The validator command line (src/validator/src/main.rs) reads a document *)
(* from a path or from standard input, prints the result of validate and   *)
(* exits with 0 or 1.  A process runs one of the two binaries.             *)
(*                                                                         *)
(* Texts are sequences of one-character strings.  The validator library    *)
(* (wsl_validator) is modelled from the design document: line classifier,  *)
(* structural assembler, the ordering and reference rules of the inline    *)
(* grammar, and the validator's errors and warnings.                       *)
(***************************************************************************)
EXTENDS Integers, Sequences, FiniteSets, TLC

NL == "\n"
SP == " "

(* ---------------------------------------------------------------------- *)
(* Bounds                                                                  *)
(* ---------------------------------------------------------------------- *)
\* longest in-memory text an operation may produce
MaxLen == 18
\* longest 'edits' array of one call
MaxEdits == 2

\* lines of a document handed to the validator command line
MaxLines == 3

\* characters of the text a failing write leaves in the file, at most
MaxCut == 1

(* ---------------------------------------------------------------------- *)
(* Text helpers                                                            *)
(* ---------------------------------------------------------------------- *)
Min(a, b) == IF a < b THEN a ELSE b

\* text[p..] starts with pat (p is 1-based)
StartsAt(text, pat, p) ==
    /\ p + Len(pat) - 1 <= Len(text)
    /\ \A k \in 1..Len(pat) : text[p + k - 1] = pat[k]

\* str::matches(pat).count(): the matches found scanning left to right,
\* each search resuming after the end of the previous match; the empty
\* pattern matches at every character boundary.
RECURSIVE MatchesFrom(_, _, _)
MatchesFrom(text, pat, p) ==
    IF p + Len(pat) - 1 > Len(text) THEN 0
    ELSE IF StartsAt(text, pat, p)
         THEN 1 + MatchesFrom(text, pat, p + Len(pat))
         ELSE MatchesFrom(text, pat, p + 1)

MatchesCount(text, pat) ==
    IF pat = <<>> THEN Len(text) + 1 ELSE MatchesFrom(text, pat, 1)

\* position of the first match of pat in text, 0 when there is none
FirstMatch(text, pat) ==
    IF \E p \in 1..Len(text) + 1 : StartsAt(text, pat, p)
    THEN CHOOSE p \in 1..Len(text) + 1 :
            /\ StartsAt(text, pat, p)
            /\ \A q \in 1..(p - 1) : ~StartsAt(text, pat, q)
    ELSE 0

\* variant: what follows the span is dropped
SpliceDropsRest(text, p, n, new) ==
    IF p = 0 THEN text ELSE SubSeq(text, 1, p - 1) \o new

\* the n characters of text from position p on replaced by new; p = 0: none
Splice(text, p, n, new) ==
    IF p = 0 THEN text
    ELSE SubSeq(text, 1, p - 1) \o new \o SubSeq(text, p + n, Len(text))

\* str::replacen(old, new, 1): the first match replaced, the rest kept
Replacen1(text, old, new) == Splice(text, FirstMatch(text, old), Len(old), new)

EndsWithNewline(text) == Len(text) > 0 /\ text[Len(text)] = NL

(* ---------------------------------------------------------------------- *)
(* Validator (wsl_validator::validate), from the design document           *)
(* ---------------------------------------------------------------------- *)
\* the lines of a text: split at line terminators, no empty last line
RECURSIVE SplitLines(_)
RECURSIVE SplitAt(_, _)
SplitAt(text, k) ==
    IF k = 0 THEN <<text>>
    ELSE <<SubSeq(text, 1, k - 1)>> \o SplitLines(SubSeq(text, k + 1, Len(text)))

SplitLines(text) ==
    IF text = <<>> THEN <<>> ELSE SplitAt(text, FirstMatch(text, <<NL>>))

IsBlankLine(line) == \A k \in 1..Len(line) : line[k] = SP

\* number of leading spaces
Indent(line) ==
    IF \E k \in 1..Len(line) : line[k] # SP
    THEN (CHOOSE k \in 1..Len(line) :
            line[k] # SP /\ \A j \in 1..(k - 1) : line[j] = SP) - 1
    ELSE Len(line)

\* the role of a non-blank line with d leading spaces
RoleAtDepth(line, d) ==
    IF d = 0 THEN "Concept"
    ELSE IF d = 2 /\ line[3] = "." THEN "Facet"
    ELSE IF d = 4 /\ Len(line) >= 6 /\ line[5] = "-" /\ line[6] = SP THEN "Claim"
    ELSE "Malformed"

\* Line Classifier: the structural role of one physical line
ClassifyLine(line) ==
    IF IsBlankLine(line) THEN "Blank" ELSE RoleAtDepth(line, Indent(line))

\* residual content of a line after its prefix
Residual(line, role) ==
    IF role = "Concept" THEN line
    ELSE IF role = "Facet" THEN SubSeq(line, 4, Len(line))
    ELSE IF role = "Claim" THEN SubSeq(line, 7, Len(line))
    ELSE line

RECURSIVE TrimLeft(_)
TrimLeft(s) == IF s # <<>> /\ s[1] = SP THEN TrimLeft(Tail(s)) ELSE s

RECURSIVE TrimRight(_)
TrimRight(s) ==
    IF s # <<>> /\ s[Len(s)] = SP THEN TrimRight(SubSeq(s, 1, Len(s) - 1)) ELSE s

Trim(s) == TrimLeft(TrimRight(s))

IsSeparator(c) == c \in {"|", "@", "&"}

SeparatorRank(c) == IF c = "|" THEN 1 ELSE IF c = "@" THEN 2 ELSE 3

\* positions of the top-level separators of a claim body, in order
SeparatorPositions(body) == {p \in 1..Len(body) : IsSeparator(body[p])}

\* the segment between position p and the first of the later separators
SegmentUpTo(body, p, later) ==
    Trim(SubSeq(body, p + 1,
                (IF later = {} THEN Len(body) + 1
                 ELSE CHOOSE q \in later : \A r \in later : q <= r) - 1))

\* the segment that starts right after position p (p = 0: the text segment)
SegmentAfter(body, p) ==
    SegmentUpTo(body, p, {q \in SeparatorPositions(body) : q > p})

\* <identifier>.<identifier>: one dot, something on both sides, no space
IsReference(seg) ==
    /\ Cardinality({p \in 1..Len(seg) : seg[p] = "."}) = 1
    /\ \A p \in 1..Len(seg) : seg[p] = "." => (p > 1 /\ p < Len(seg))
    /\ \A p \in 1..Len(seg) : seg[p] # SP

\* the elements of a finite set of numbers, ascending
RECURSIVE Ascending(_)
RECURSIVE AscendingFrom(_, _)
AscendingFrom(S, m) == <<m>> \o Ascending(S \ {m})

Ascending(S) ==
    IF S = {} THEN <<>>
    ELSE AscendingFrom(S, CHOOSE x \in S : \A y \in S : x <= y)

\* the parsed claim, given the positions of its separators and of its
\* references in order
ParseSegments(body, seps, refs) ==
    [ text    |-> SegmentAfter(body, 0),
      ok      |-> \A p \in seps, q \in seps :
                     p < q => SeparatorRank(body[p]) <= SeparatorRank(body[q]),
      refs_ok |-> \A j \in 1..Len(refs) : IsReference(SegmentAfter(body, refs[j])),
      refs    |-> [j \in 1..Len(refs) |-> SegmentAfter(body, refs[j])] ]

\* Inline Grammar Parser: the parsed claim, ok = FALSE on an ordering
\* violation, refs_ok = FALSE on a malformed reference
ParseInline(body) ==
    ParseSegments(body, SeparatorPositions(body),
                  Ascending({p \in SeparatorPositions(body) : body[p] = "&"}))

Diag(line, kind) == [line |-> line, kind |-> kind]

\* Structural Assembler: the cursor state before any line
AssembleInit ==
    [ concept  |-> 0,      \* declaration line of the open concept, 0: none
      facet    |-> 0,      \* declaration line of the open facet, 0: none
      concepts |-> <<>>,   \* [name, line, facets] in order
      facets   |-> <<>>,   \* [name, line, concept, claims] in order
      refs     |-> <<>>,   \* [line, ref] of the well-formed references
      errors   |-> <<>>,
      warnings |-> <<>> ]

\* a claim line under an open facet, its body parsed
AssembleClaim(st, k, claim) ==
    [st EXCEPT
       !.facets   = [@ EXCEPT ![Len(@)].claims = @ + 1],
       !.errors   = (IF claim.ok THEN @
                     ELSE Append(@, Diag(k, "malformed_inline")))
                    \o (IF claim.refs_ok THEN <<>>
                        ELSE <<Diag(k, "malformed_reference")>>),
       !.refs     = IF claim.refs_ok
                    THEN @ \o [j \in 1..Len(claim.refs) |->
                                  [line |-> k, ref |-> claim.refs[j]]]
                    ELSE @,
       !.warnings = IF claim.text = <<>>
                    THEN Append(@, Diag(k, "empty_claim")) ELSE @]

\* one classified line consumed by the assembler
AssembleRole(st, k, role, rest) ==
    IF role = "Blank" THEN st
    ELSE IF role = "Malformed"
    THEN [st EXCEPT !.errors = Append(@, Diag(k, "indentation"))]
    ELSE IF role = "Concept"
    THEN [st EXCEPT
            !.concept  = k,
            !.facet    = 0,
            !.concepts = Append(@, [name |-> rest, line |-> k, facets |-> 0]),
            !.warnings = IF \E c \in 1..Len(st.concepts) : st.concepts[c].name = rest
                         THEN Append(@, Diag(k, "duplicate_concept")) ELSE @]
    ELSE IF role = "Facet"
    THEN IF st.concept = 0
         THEN [st EXCEPT !.errors = Append(@, Diag(k, "orphan_facet"))]
         ELSE [st EXCEPT
                 !.facet    = k,
                 !.facets   = Append(@, [name |-> rest, line |-> k,
                                         concept |-> st.concept, claims |-> 0]),
                 !.concepts = [@ EXCEPT ![Len(@)].facets = @ + 1],
                 !.warnings = IF \E f \in 1..Len(st.facets) :
                                    /\ st.facets[f].name = rest
                                    /\ st.facets[f].concept # st.concept
                              THEN Append(@, Diag(k, "facet_reuse")) ELSE @]
    ELSE \* Claim
         IF st.facet = 0
         THEN [st EXCEPT !.errors = Append(@, Diag(k, "orphan_claim"))]
         ELSE AssembleClaim(st, k, ParseInline(rest))

ClassifiedLine(st, k, role, line) == AssembleRole(st, k, role, Residual(line, role))

AssembleLine(st, line, k) == ClassifiedLine(st, k, ClassifyLine(line), line)

RECURSIVE AssembleFrom(_, _, _)
AssembleFrom(st, lines, k) ==
    IF k > Len(lines) THEN st
    ELSE AssembleFrom(AssembleLine(st, lines[k], k), lines, k + 1)

HasNoFacet(c) == c.facets = 0

HasNoClaim(f) == f.claims = 0

\* one diagnostic of a kind for each declaration of a sequence
Missing(decls, kind) == [j \in 1..Len(decls) |-> Diag(decls[j].line, kind)]

\* end of input: a concept without facet, a facet without claim
EndOfInput(st) ==
    [st EXCEPT
       !.errors = @ \o Missing(SelectSeq(st.concepts, HasNoFacet), "concept_missing_facet")
                    \o Missing(SelectSeq(st.facets, HasNoClaim), "facet_missing_claim")]

\* assemble(lines): the tree so far and the diagnostics, end-of-input
\* checks included
Assemble(lines) == EndOfInput(AssembleFrom(AssembleInit, lines, 1))

\* stable insertion of one diagnostic by line number
RECURSIVE InsertByLine(_, _)
InsertByLine(sorted, d) ==
    IF sorted = <<>> THEN <<d>>
    ELSE IF d.line < sorted[1].line THEN <<d>> \o sorted
    ELSE <<sorted[1]>> \o InsertByLine(Tail(sorted), d)

RECURSIVE SortByLine(_)
SortByLine(ds) ==
    IF ds = <<>> THEN <<>>
    ELSE InsertByLine(SortByLine(SubSeq(ds, 1, Len(ds) - 1)), ds[Len(ds)])

\* a reference resolves when its concept has a facet of that name
Resolves(st, ref) ==
    \E c \in 1..Len(st.concepts), f \in 1..Len(st.facets), dot \in 1..Len(ref) :
        /\ ref[dot] = "."
        /\ st.concepts[c].name = SubSeq(ref, 1, dot - 1)
        /\ st.facets[f].name = SubSeq(ref, dot + 1, Len(ref))
        /\ st.facets[f].concept = st.concepts[c].line

\* the references of the document that resolve nowhere in it
Dangling(st) ==
    SelectSeq(st.refs, LAMBDA r : ~Resolves(st, r.ref))

\* the validator's rules over the assembled document
Validator(st) ==
    [ errors   |-> SortByLine(st.errors),
      warnings |-> SortByLine(st.warnings \o Missing(Dangling(st), "unresolved_reference")) ]

\* validate(text) -> {errors, warnings}, both ordered by line
validate(text) == Validator(Assemble(SplitLines(text)))

is_valid(validation) == validation.errors = <<>>

has_warnings(validation) == validation.warnings # <<>>

(* ---------------------------------------------------------------------- *)
(* Texts and requests the model draws its inputs from                      *)
(* ---------------------------------------------------------------------- *)
sEmpty   == <<>>
sConcept == <<"T", NL>>
sFacet   == <<SP, SP, ".", "a", NL>>
sClaim   == <<SP, SP, SP, SP, "-", SP, "a", NL>>
\* a valid document: one concept, one facet, one claim
sDoc     == sConcept \o sFacet \o sClaim

\* one element of the 'edits' array; has_old / has_new are FALSE when the
\* field is absent or not a string
Edit(old, new) ==
    [has_old |-> TRUE, old_string |-> old, has_new |-> TRUE, new_string |-> new]

NoEdit == [has_old |-> FALSE, old_string |-> <<>>, has_new |-> FALSE, new_string |-> <<>>]

EditSet ==
    { Edit(sEmpty, sDoc),                                \* create the document
      Edit(sEmpty, sEmpty),                              \* create nothing
      Edit(sDoc, sEmpty),                                \* delete everything
      Edit(sClaim, sEmpty),                              \* delete the only claim
      Edit(<<".", "a">>, <<".", "f">>),                  \* rename the facet
      Edit(<<".", "f">>, <<".", "a">>),                  \* and back
      Edit(<<"a">>, <<"a", "a", "a">>),
      Edit(<<"a", "a">>, <<"a">>),
      Edit(<<"-", SP, "a">>, <<"-", SP>>),               \* empty the claim text
      Edit(<<"-", SP, "a", NL>>, <<"-", SP, "a", NL, NL>>),  \* add a blank line
      Edit(<<"-", SP, "a", NL>>, <<"-", SP, "a">>),      \* drop the last newline
      Edit(sEmpty, SubSeq(sDoc, 1, Len(sDoc) - 1)),      \* create, no last newline
      Edit(sConcept, sEmpty),                            \* delete the concept line
      Edit(sFacet, sEmpty),                              \* delete the facet line
      Edit(<<"-", SP, "a", NL>>, <<"-", SP, NL, "T", NL>>),  \* empty claim, bare concept
      [has_old |-> FALSE, old_string |-> <<>>, has_new |-> TRUE, new_string |-> <<"a">>],
      [has_old |-> TRUE, old_string |-> <<"a">>, has_new |-> FALSE, new_string |-> <<>>] }

\* the file before the first call: absent, empty, a valid document, a
\* valid document without final newline, a document with an error
InitFiles ==
    { [exists |-> FALSE, content |-> <<>>],
      [exists |-> TRUE,  content |-> <<>>],
      [exists |-> TRUE,  content |-> sDoc],
      [exists |-> TRUE,  content |-> SubSeq(sDoc, 1, Len(sDoc) - 1)],
      [exists |-> TRUE,  content |-> sConcept] }

\* the shapes of the params of an edit_wsl call: an 'edits' array of n
\* elements, no 'edits' key, an 'edits' value that is no array, or one
\* of the line-indexed requests of the design document
LineShapes == {"replace", "insert_after", "delete", "append"}

Params(shape, n, line) == [shape |-> shape, n |-> n, line |-> line]

NoParams == Params("none", 0, 0)

\* no call was made yet
NoCall == Params("no_call", 0, 0)

ParamsSet ==
    {Params("patch", n, 0) : n \in 0..MaxEdits}
        \cup {NoParams, Params("edits_not_array", 0, 0)}
        \cup {Params(shape, 1, line) : shape \in LineShapes, line \in 0..1}

(* ---------------------------------------------------------------------- *)
(* State                                                                   *)
(* ---------------------------------------------------------------------- *)
VARIABLES
    file_exists,    \* file_path.exists()
    file_content,   \* the text stored in the file
    pc,             \* "idle": no call running; "loop": inside the for loop
    edit_count,     \* edits.len() of the running call
    i,              \* number of operations of the running call examined
    content,        \* the in-memory text of the running call
    result,         \* what the last call returned
    pre_exists,     \* the file as the last call found it
    pre_content,
    edit,           \* the operation examined last
    before,         \* the in-memory text that operation was examined on
    outcome,        \* what became of that operation
    validated,      \* the text the last call handed to validate, if any
    written,        \* the text the last call wrote, if any
    init_valid,     \* the file was absent or valid before the first call
    params,         \* the params of the last call
    io,             \* whole-file reads and writes of the last call
    program,        \* the binary this process runs: "agent" or "validator"
    input,          \* validator: the text of the file or of standard input
    cli,            \* validator: what the run printed and its exit code
    run             \* agent: the loop of main, its tool calls and its end

vars == <<file_exists, file_content, pc, edit_count, i, content, result,
          pre_exists, pre_content, edit, before, outcome, validated, written,
          init_valid, params, io, program, input, cli, run>>

Result(kind, index, count, errors, warnings, n) ==
    [kind |-> kind, index |-> index, count |-> count,
     errors |-> errors, warnings |-> warnings, edit_count |-> n]

NoResult == Result("none", 0, 0, <<>>, <<>>, 0)

NoText == [done |-> FALSE, text |-> <<>>]

NoIo == [reads |-> 0, writes |-> 0]

\* the validator has not run
NoRun ==
    [mode |-> "none", read_ok |-> FALSE, exit |-> -1, report |-> "none",
     errors |-> <<>>, warnings |-> <<>>, ext_warning |-> FALSE]

\* the agent process: the file as it is found, no call made yet
InitAgent ==
    /\ program = "agent"
    /\ input = <<>>
    /\ cli = NoRun
    /\ \E f \in InitFiles :
          /\ file_exists = f.exists
          /\ file_content = f.content
          /\ pre_exists = f.exists
          /\ pre_content = f.content
          /\ init_valid = (~f.exists \/ is_valid(validate(f.content)))
    /\ pc = "idle"
    /\ edit_count = 0
    /\ i = 0
    /\ content = <<>>
    /\ result = NoResult
    /\ edit = NoEdit
    /\ before = <<>>
    /\ outcome = "none"
    /\ validated = NoText
    /\ written = NoText
    /\ params = NoCall
    /\ io = NoIo

(* ---------------------------------------------------------------------- *)
(* handle_edit_wsl                                                         *)
(* ---------------------------------------------------------------------- *)
\* a call starts: what the previous call left behind is forgotten
\* a tool call of the agent: one name and its call_id
ToolCall(name, call_id) == [name |-> name, call_id |-> call_id]

NoToolCall == ToolCall("none", 0)

\* the loop of main, in the state s
Loop(phase) ==
    [phase |-> phase,          \* "none", "polling", "request", "finished", "failed"
     request |-> <<>>,         \* the tool calls of the last ToolRequest
     queue |-> <<>>,           \* those not yet handled
     running |-> FALSE,        \* handle_tool_call was entered, nothing submitted
     current |-> NoToolCall,   \* the call being handled
     submitted |-> <<>>,       \* [call_id, kind] of the results submitted
     left |-> [exists |-> FALSE, content |-> <<>>],  \* the file at the last submit
     persisted |-> FALSE,      \* an edit_wsl call of this run wrote the file
     printed |-> FALSE,        \* "WSL file updated" was printed
     exit |-> -1]

\* handle_edit_wsl called on its own, outside main
NoLoop == Loop("none")

\* variant: the calls of a request are taken from the end of the list
PickLastCall(queue) == queue[Len(queue)]

\* for call in tool_calls
PickCall(queue) == Head(queue)

\* handle_tool_call enters the handler of the tool of that name
ToolDispatched(name) ==
    IF run.phase = "none" THEN run' = run
    ELSE /\ run.phase = "request"
         /\ ~run.running
         /\ PickCall(run.queue).name = name
         /\ run' = [run EXCEPT !.running = TRUE, !.current = PickCall(run.queue)]

CallStarts(p) ==
    /\ program = "agent"
    /\ pc = "idle"
    /\ ToolDispatched("edit_wsl")
    /\ params' = p
    /\ pre_exists' = file_exists
    /\ pre_content' = file_content
    /\ validated' = NoText
    /\ written' = NoText
    /\ UNCHANGED <<program, input, cli>>

\* variant: any request that names one operation counts as an array
HasEditsOrOperation(p) == p.shape \in {"patch"} \cup LineShapes

\* params.get("edits").and_then(|v| v.as_array()) is Some
HasEditsArray(p) == p.shape = "patch"

\* params has no 'edits' array
EditsRequired(p) ==
    /\ ~HasEditsArray(p)
    /\ CallStarts(p)
    /\ result' = Result("edits_required", 0, 0, <<>>, <<>>, 0)
    /\ edit' = NoEdit /\ before' = <<>> /\ outcome' = "none"
    /\ edit_count' = 0 /\ i' = 0 /\ content' = <<>>
    /\ io' = NoIo
    /\ UNCHANGED <<file_exists, file_content, pc, init_valid>>

\* the 'edits' array is empty
EditsEmpty(p) ==
    /\ HasEditsArray(p)
    /\ p.n = 0
    /\ CallStarts(p)
    /\ result' = Result("edits_empty", 0, 0, <<>>, <<>>, 0)
    /\ edit' = NoEdit /\ before' = <<>> /\ outcome' = "none"
    /\ edit_count' = 0 /\ i' = 0 /\ content' = <<>>
    /\ io' = NoIo
    /\ UNCHANGED <<file_exists, file_content, pc, init_valid>>

\* the file is read, or the text starts empty for a new file
ReadContent(p) ==
    /\ HasEditsArray(p)
    /\ p.n > 0
    /\ CallStarts(p)
    /\ content' = IF file_exists THEN file_content ELSE <<>>
    /\ io' = [reads |-> IF file_exists THEN 1 ELSE 0, writes |-> 0]
    /\ edit_count' = p.n
    /\ i' = 0
    /\ pc' = "loop"
    /\ result' = NoResult
    /\ edit' = NoEdit /\ before' = <<>> /\ outcome' = "none"
    /\ UNCHANGED <<file_exists, file_content, init_valid>>

\* the operation at index i is examined on the current text
Examine(e, what) ==
    /\ pc = "loop"
    /\ i < edit_count
    /\ edit' = e
    /\ before' = content
    /\ outcome' = what
    /\ i' = i + 1
    /\ UNCHANGED <<params, program, input, cli, run>>


\* variant: the early return saves the text reached so far
AbortEditSaving(kind, count) ==
    /\ result' = Result(kind, i + 1, count, <<>>, <<>>, 0)
    /\ pc' = "idle"
    /\ content' = content
    /\ file_exists' = TRUE
    /\ file_content' = content
    /\ written' = [done |-> TRUE, text |-> content]
    /\ io' = [io EXCEPT !.writes = @ + 1]
    /\ UNCHANGED <<edit_count, pre_exists, pre_content, validated, init_valid>>

\* variant: the error is noted and the loop goes on
AbortEditContinues(kind, count) ==
    /\ result' = Result(kind, i + 1, count, <<>>, <<>>, 0)
    /\ content' = content
    /\ UNCHANGED <<file_exists, file_content, pc, edit_count, pre_exists,
                   pre_content, validated, written, init_valid, io>>

\* an early return from inside the loop: nothing is written
AbortEdit(kind, count) ==
    /\ result' = Result(kind, i + 1, count, <<>>, <<>>, 0)
    /\ pc' = "idle"
    /\ content' = content
    /\ UNCHANGED <<file_exists, file_content, edit_count, pre_exists, pre_content,
                   validated, written, init_valid, io>>


\* variant: the text is left as the loop produced it
KeepEnding(c) == c

\* variant: a newline is pushed whatever the text ends with
AlwaysPushNewline(c) == Append(c, NL)

\* Ensure file ends with newline
EnsureTrailingNewline(c) ==
    IF c # <<>> /\ ~EndsWithNewline(c) THEN Append(c, NL) ELSE c


\* variant: the write is always reached
WriteAlways(validation) == TRUE

\* variant: the gate looks at the warnings instead of the errors
WriteUnlessWarnings(validation) == ~has_warnings(validation)

\* variant: a warning blocks the write as an error does
WriteOnlyIfClean(validation) == is_valid(validation) /\ ~has_warnings(validation)

\* the commit gate: the write is reached only with a valid result
WriteAllowed(validation) == is_valid(validation)

\* variant: the rejection reports the first error only
FirstErrorOnly(validation) == SubSeq(validation.errors, 1, 1)

\* the errors the validation-failed message lists
RejectedErrors(validation) == validation.errors

\* the warnings the success message lists
ReportedWarnings(validation) ==
    IF has_warnings(validation) THEN validation.warnings ELSE <<>>

\* the validated text is written or rejected, the call answers
CommitGate(norm, validation) ==
    /\ content' = norm
    /\ validated' = [done |-> TRUE, text |-> norm]
    /\ pc' = "idle"
    /\ IF ~WriteAllowed(validation)
       THEN /\ result' = Result("validation_failed", 0, 0,
                                RejectedErrors(validation), <<>>, 0)
            /\ UNCHANGED <<file_exists, file_content, written, io>>
       ELSE /\ file_exists' = TRUE
            /\ file_content' = norm
            /\ written' = [done |-> TRUE, text |-> norm]
            /\ io' = [io EXCEPT !.writes = @ + 1]
            /\ result' = Result("ok", 0, 0, <<>>, ReportedWarnings(validation),
                                edit_count)
    /\ UNCHANGED <<edit_count, pre_exists, pre_content, init_valid>>

\* variant: the text read from the file is validated, not the edited one
ValidateStored(norm) == CommitGate(norm, validate(pre_content))

\* Validate the new content before writing
ValidateContent(norm) == CommitGate(norm, validate(norm))

\* after the loop: normalise, validate, write or reject, answer
AfterLoop(c) == ValidateContent(EnsureTrailingNewline(c))

\* variant: the text is saved after every operation
ContinueSaving(c) ==
    /\ Len(c) <= MaxLen
    /\ IF i + 1 < edit_count
       THEN /\ content' = c
            /\ file_exists' = TRUE
            /\ file_content' = c
            /\ io' = [io EXCEPT !.writes = @ + 1]
            /\ UNCHANGED <<pc, edit_count, result, pre_exists, pre_content,
                           validated, written, init_valid>>
       ELSE AfterLoop(c)

\* the operation succeeded and left the text c: next operation, or the
\* end of the loop
Continue(c) ==
    /\ Len(c) <= MaxLen
    /\ IF i + 1 < edit_count
       THEN /\ content' = c
            /\ UNCHANGED <<file_exists, file_content, pc, edit_count, result,
                           pre_exists, pre_content, validated, written, init_valid,
                           io>>
       ELSE AfterLoop(c)

\* the operation has no string 'old_string'
EditMissingOld(e) ==
    /\ ~e.has_old
    /\ Examine(e, "missing_old")
    /\ AbortEdit("missing_old", 0)

\* variant: a missing 'new_string' is taken as the empty string
EditMissingNewAsEmpty(e) ==
    /\ e.has_old /\ ~e.has_new
    /\ content # <<>>
    /\ MatchesCount(content, e.old_string) = 1
    /\ Examine(e, "replaced")
    /\ Continue(Replacen1(content, e.old_string, <<>>))

\* the operation has no string 'new_string'
EditMissingNew(e) ==
    /\ e.has_old /\ ~e.has_new
    /\ Examine(e, "missing_new")
    /\ AbortEdit("missing_new", 0)

\* the text is empty and old_string is not
EditFileEmpty(e) ==
    /\ e.has_old /\ e.has_new
    /\ content = <<>>
    /\ e.old_string # <<>>
    /\ Examine(e, "file_empty")
    /\ AbortEdit("file_empty", 0)

\* the text is empty and so is old_string: the text becomes new_string
EditCreate(e) ==
    /\ e.has_old /\ e.has_new
    /\ content = <<>>
    /\ e.old_string = <<>>
    /\ Examine(e, "created")
    /\ Continue(e.new_string)


\* variant: no arm for zero matches
MatchOutcomeNoZero(count) == IF count <= 1 THEN "replaced" ELSE "ambiguous"

\* what the match on the number of matches decides
MatchOutcome(count) ==
    IF count = 0 THEN "not_found" ELSE IF count = 1 THEN "replaced" ELSE "ambiguous"


\* variant: the matches are counted in the text as read from the file
SearchedOriginal(current, original) == original

\* the text the matches are counted in
SearchedText(current, original) == current

EditNotFound(e) ==
    /\ e.has_old /\ e.has_new
    /\ content # <<>>
    /\ MatchOutcome(MatchesCount(SearchedText(content, pre_content), e.old_string)) = "not_found"
    /\ Examine(e, "not_found")
    /\ AbortEdit("not_found", 0)

EditAmbiguous(e) ==
    /\ e.has_old /\ e.has_new
    /\ content # <<>>
    /\ MatchOutcome(MatchesCount(SearchedText(content, pre_content), e.old_string)) = "ambiguous"
    /\ Examine(e, "ambiguous")
    /\ AbortEdit("ambiguous", MatchesCount(SearchedText(content, pre_content), e.old_string))

EditReplace(e) ==
    /\ e.has_old /\ e.has_new
    /\ content # <<>>
    /\ MatchOutcome(MatchesCount(SearchedText(content, pre_content), e.old_string)) = "replaced"
    /\ Examine(e, "replaced")
    /\ Continue(Replacen1(content, e.old_string, e.new_string))

(* ---------------------------------------------------------------------- *)
(* edit_wsl when storage fails                                             *)
(* ---------------------------------------------------------------------- *)
\* std::fs::read_to_string fails on the existing file: "Error reading file"
ReadFails(p) ==
    /\ HasEditsArray(p)
    /\ p.n > 0
    /\ file_exists
    /\ CallStarts(p)
    /\ result' = Result("read_error", 0, 0, <<>>, <<>>, 0)
    /\ io' = [reads |-> 1, writes |-> 0]
    /\ edit' = NoEdit /\ before' = <<>> /\ outcome' = "none"
    /\ edit_count' = 0 /\ i' = 0 /\ content' = <<>>
    /\ UNCHANGED <<file_exists, file_content, pc, init_valid>>

\* what a failing std::fs::write can leave: k = -1, the file could not be
\* opened; k >= 0, it was created or truncated and k characters of the
\* text reached it before the error
WriteCuts(norm) == {-1} \cup (0..Min(MaxCut, Len(norm) - 1))

\* the validated text passes the gate and std::fs::write fails:
\* "Error writing file"
CommitFails(norm, validation, k) ==
    /\ WriteAllowed(validation)
    /\ content' = norm
    /\ validated' = [done |-> TRUE, text |-> norm]
    /\ pc' = "idle"
    /\ result' = Result("write_error", 0, 0, <<>>, <<>>, 0)
    /\ io' = [io EXCEPT !.writes = @ + 1]
    /\ IF k < 0
       THEN UNCHANGED <<file_exists, file_content, written>>
       ELSE /\ file_exists' = TRUE
            /\ file_content' = SubSeq(norm, 1, k)
            /\ written' = [done |-> TRUE, text |-> SubSeq(norm, 1, k)]
    /\ UNCHANGED <<edit_count, pre_exists, pre_content, init_valid>>

\* the last operation succeeded and left the text c, the write fails
LastWriteFails(c, k) ==
    /\ Len(c) <= MaxLen
    /\ i + 1 = edit_count
    /\ k \in WriteCuts(EnsureTrailingNewline(c))
    /\ CommitFails(EnsureTrailingNewline(c), validate(EnsureTrailingNewline(c)), k)

EditCreateWriteFails(e, k) ==
    /\ e.has_old /\ e.has_new
    /\ content = <<>>
    /\ e.old_string = <<>>
    /\ Examine(e, "created")
    /\ LastWriteFails(e.new_string, k)

EditReplaceWriteFails(e, k) ==
    /\ e.has_old /\ e.has_new
    /\ content # <<>>
    /\ MatchOutcome(MatchesCount(SearchedText(content, pre_content), e.old_string)) = "replaced"
    /\ Examine(e, "replaced")
    /\ LastWriteFails(Replacen1(content, e.old_string, e.new_string), k)

(* ---------------------------------------------------------------------- *)
(* The validator command line (src/validator/src/main.rs)                  *)
(* ---------------------------------------------------------------------- *)
\* the lines the documents are made of: a concept, a facet, a claim, an
\* empty claim, a claim with its separators out of order, a claim with a
\* malformed reference, a line indented by one space, a blank line
DocLines ==
    { <<"T">>,
      <<SP, SP, ".", "a">>,
      <<SP, SP, SP, SP, "-", SP, "a">>,
      <<SP, SP, SP, SP, "-", SP>>,
      <<SP, SP, SP, SP, "-", SP, "a", "@", "|">>,
      <<SP, SP, SP, SP, "-", SP, "a", "&", "x">>,
      <<SP, "x">>,
      <<>> }

\* the text of a sequence of lines, each one terminated
RECURSIVE JoinLines(_)
JoinLines(ls) ==
    IF ls = <<>> THEN <<>> ELSE Head(ls) \o <<NL>> \o JoinLines(Tail(ls))

Docs == {JoinLines(ls) : ls \in UNION {[1..n -> DocLines] : n \in 0..MaxLines}}

\* the validator process: an input, nothing run yet
InitValidator ==
    /\ program = "validator"
    /\ input \in Docs
    /\ cli = NoRun
    /\ file_exists = FALSE
    /\ file_content = <<>>
    /\ pre_exists = FALSE
    /\ pre_content = <<>>
    /\ init_valid = TRUE
    /\ pc = "idle"
    /\ edit_count = 0
    /\ i = 0
    /\ content = <<>>
    /\ result = NoResult
    /\ edit = NoEdit
    /\ before = <<>>
    /\ outcome = "none"
    /\ validated = NoText
    /\ written = NoText
    /\ params = NoCall
    /\ io = NoIo

\* the process runs once and exits
CliRuns ==
    /\ program = "validator"
    /\ cli = NoRun
    /\ UNCHANGED <<file_exists, file_content, pc, edit_count, i, content, result,
                   pre_exists, pre_content, edit, before, outcome, validated,
                   written, init_valid, params, io, program, input, run>>

\* a run that ends before any document is validated
CliEnds(mode, report, code, ext_warning) ==
    /\ CliRuns
    /\ cli' = [mode |-> mode, read_ok |-> FALSE, exit |-> code, report |-> report,
               errors |-> <<>>, warnings |-> <<>>, ext_warning |-> ext_warning]

\* args.len() < 2
CliUsage == CliEnds("none", "usage", 1, FALSE)

\* --help, -h
CliHelp == CliEnds("help", "usage", 0, FALSE)

\* --version, -V
CliVersion == CliEnds("version", "version", 0, FALSE)

\* --stdin, reading standard input fails
CliStdinError == CliEnds("stdin", "stdin_error", 1, FALSE)

\* a path that does not exist
CliFileNotFound == CliEnds("file", "not_found", 1, FALSE)

\* a path that exists and cannot be read
CliFileError(wvf) == CliEnds("file", "read_error", 1, ~wvf)

\* variant: a document with warnings exits non-zero
ExitCodeStrict(validation) ==
    IF is_valid(validation) /\ ~has_warnings(validation) THEN 0 ELSE 1

\* ExitCode::SUCCESS for a valid result, ExitCode::from(1) otherwise
ExitCode(validation) == IF is_valid(validation) THEN 0 ELSE 1

\* variant: the warnings of an invalid document are not printed
PrintedWarningsIfValid(validation) ==
    IF is_valid(validation) THEN validation.warnings ELSE <<>>

\* the warnings printed, after the headline or after the errors
PrintedWarnings(validation) ==
    IF has_warnings(validation) THEN validation.warnings ELSE <<>>

\* the errors printed: each one of an invalid result
PrintedErrors(validation) ==
    IF is_valid(validation) THEN <<>> ELSE validation.errors

\* the result is printed and decides the exit code
CliReport(mode, ext_warning, validation) ==
    /\ CliRuns
    /\ cli' = [mode |-> mode, read_ok |-> TRUE, exit |-> ExitCode(validation),
               report |-> IF is_valid(validation) THEN "valid" ELSE "invalid",
               errors |-> PrintedErrors(validation),
               warnings |-> PrintedWarnings(validation),
               ext_warning |-> ext_warning]

\* --stdin: validate(&input)
CliStdin == CliReport("stdin", FALSE, validate(input))

\* a path: validate_file(path), with a warning for another extension
CliFile(wvf) == CliReport("file", ~wvf, validate(input))

NextValidator ==
    \/ CliUsage
    \/ CliHelp
    \/ CliVersion
    \/ CliStdinError
    \/ CliFileNotFound
    \/ \E wvf \in BOOLEAN : CliFileError(wvf)
    \/ CliStdin
    \/ \E wvf \in BOOLEAN : CliFile(wvf)

NextAgent ==
    \/ \E p \in ParamsSet : EditsRequired(p)
    \/ \E p \in ParamsSet : EditsEmpty(p)
    \/ \E p \in ParamsSet : ReadContent(p)
    \/ \E e \in EditSet : EditMissingOld(e)
    \/ \E e \in EditSet : EditMissingNew(e)
    \/ \E e \in EditSet : EditFileEmpty(e)
    \/ \E e \in EditSet : EditCreate(e)
    \/ \E e \in EditSet : EditNotFound(e)
    \/ \E e \in EditSet : EditAmbiguous(e)
    \/ \E e \in EditSet : EditReplace(e)

NextStorageFails ==
    \/ \E p \in ParamsSet : ReadFails(p)
    \/ \E e \in EditSet : \E k \in -1..MaxCut : EditCreateWriteFails(e, k)
    \/ \E e \in EditSet : \E k \in -1..MaxCut : EditReplaceWriteFails(e, k)

(* ---------------------------------------------------------------------- *)
(* The loop of main: agent steps, tool calls, the end of the run           *)
(* ---------------------------------------------------------------------- *)
\* the two registered tools and a name that is not registered
ToolNames == {"read_wsl", "edit_wsl", "other_tool"}

\* a list of tool calls of these names; the call_id of a call is its
\* position counted from the end of the list
Request(names) ==
    [k \in 1..Len(names) |-> ToolCall(names[k], Len(names) + 1 - k)]

\* the lists of tool calls of a ToolRequest step
Requests ==
    { Request(<<>>),
      Request(<<"read_wsl">>),
      Request(<<"edit_wsl">>),
      Request(<<"other_tool">>),
      Request(<<"read_wsl", "edit_wsl">>),
      Request(<<"edit_wsl", "edit_wsl">>),
      Request(<<"edit_wsl", "read_wsl">>),
      Request(<<"other_tool", "edit_wsl">>),
      Request(<<"edit_wsl", "other_tool">>) }

\* the params of the edit_wsl calls of the loop: one operation, none,
\* no 'edits' array
MainParams == {Params("patch", 1, 0), Params("patch", 0, 0), NoParams}

\* a handler other than handle_edit_wsl is entered and returns at once:
\* the state of the last edit_wsl call is forgotten
ToolReturns(name, kind, lines) ==
    /\ program = "agent"
    /\ pc = "idle"
    /\ ToolDispatched(name)
    /\ params' = NoCall
    /\ pre_exists' = file_exists
    /\ pre_content' = file_content
    /\ validated' = NoText
    /\ written' = NoText
    /\ result' = Result(kind, 0, lines, <<>>, <<>>, 0)
    /\ edit' = NoEdit /\ before' = <<>> /\ outcome' = "none"
    /\ edit_count' = 0 /\ i' = 0 /\ content' = <<>>
    /\ UNCHANGED <<pc, init_valid, program, input, cli>>

\* variant: read_wsl creates the file it does not find
ReadWslCreates ==
    /\ ~file_exists
    /\ ToolReturns("read_wsl", "file_missing", 0)
    /\ io' = [reads |-> 0, writes |-> 1]
    /\ file_exists' = TRUE
    /\ file_content' = <<>>

\* read_wsl, no file: "File does not exist yet. ..."
ReadWslMissing ==
    /\ ~file_exists
    /\ ToolReturns("read_wsl", "file_missing", 0)
    /\ io' = NoIo
    /\ UNCHANGED <<file_exists, file_content>>

\* read_wsl: the lines of the file, numbered
ReadWslListing ==
    /\ file_exists
    /\ ToolReturns("read_wsl", "listing", Len(SplitLines(file_content)))
    /\ io' = [reads |-> 1, writes |-> 0]
    /\ UNCHANGED <<file_exists, file_content>>

\* read_wsl, the file cannot be read: "Error reading file: ..."
ReadWslFails ==
    /\ file_exists
    /\ ToolReturns("read_wsl", "read_error", 0)
    /\ io' = [reads |-> 1, writes |-> 0]
    /\ UNCHANGED <<file_exists, file_content>>

\* any other name: "Unknown tool: ..."
UnknownTool ==
    /\ ToolReturns("other_tool", "unknown_tool", 0)
    /\ io' = NoIo
    /\ UNCHANGED <<file_exists, file_content>>

\* a step of main that touches neither the file nor a tool call
MainSteps ==
    /\ program = "agent"
    /\ UNCHANGED <<file_exists, file_content, pc, edit_count, i, content, result,
                   pre_exists, pre_content, edit, before, outcome, validated,
                   written, init_valid, params, io, program, input, cli>>

\* agent.next() is awaited only between the steps
Polled == run.phase = "polling" /\ MainSteps

\* TextDelta, ThinkingDelta, CompactionDelta, Retrying: output only
AgentDelta == Polled /\ run' = run

\* ToolRequest(tool_calls): the calls are handled one after the other
AgentToolRequest(calls) ==
    /\ Polled
    /\ run' = [run EXCEPT !.phase = IF calls = <<>> THEN "polling" ELSE "request",
                          !.request = calls,
                          !.queue = calls,
                          !.submitted = <<>>]

\* agent.submit_tool_result(&call.call_id, result), then the next call;
\* the locals of the handler are gone
SubmitToolResult ==
    /\ program = "agent"
    /\ params' = NoCall
    /\ pre_exists' = file_exists
    /\ pre_content' = file_content
    /\ validated' = NoText
    /\ written' = NoText
    /\ result' = NoResult
    /\ io' = NoIo
    /\ edit' = NoEdit /\ before' = <<>> /\ outcome' = "none"
    /\ edit_count' = 0 /\ i' = 0 /\ content' = <<>>
    /\ UNCHANGED <<file_exists, file_content, pc, init_valid, program, input, cli>>
    /\ run.phase = "request"
    /\ run.running
    /\ pc = "idle"
    /\ run' = [run EXCEPT
                 !.running = FALSE,
                 !.current = NoToolCall,
                 !.submitted = Append(@, [call_id |-> run.current.call_id,
                                          kind |-> result.kind]),
                 !.queue = Tail(@),
                 !.left = [exists |-> file_exists, content |-> file_content],
                 !.persisted = @ \/ (run.current.name = "edit_wsl" /\ written.done),
                 !.phase = IF Tail(run.queue) = <<>> THEN "polling" ELSE "request"]

\* println!("\n\nWSL file updated: {:?}", file_path) follows the loop
PrintedAfterLoop(persisted) == TRUE

\* the loop is left, the last line is printed, main returns Ok
LoopEnds ==
    /\ Polled
    /\ run' = [run EXCEPT !.phase = "finished",
                          !.printed = PrintedAfterLoop(run.persisted),
                          !.exit = 0]

\* AgentStep::Finished: break
AgentFinished == LoopEnds

\* agent.next() returns None: the while let ends
AgentStreamEnds == LoopEnds

\* AgentStep::Error: std::process::exit(1)
AgentError ==
    /\ Polled
    /\ run' = [run EXCEPT !.phase = "failed", !.exit = 1]

NextMain ==
    \/ \E p \in MainParams : EditsRequired(p)
    \/ \E p \in MainParams : EditsEmpty(p)
    \/ \E p \in MainParams : ReadContent(p)
    \/ \E e \in EditSet : EditMissingOld(e)
    \/ \E e \in EditSet : EditMissingNew(e)
    \/ \E e \in EditSet : EditFileEmpty(e)
    \/ \E e \in EditSet : EditCreate(e)
    \/ \E e \in EditSet : EditNotFound(e)
    \/ \E e \in EditSet : EditAmbiguous(e)
    \/ \E e \in EditSet : EditReplace(e)
    \/ ReadWslMissing
    \/ ReadWslListing
    \/ ReadWslFails
    \/ UnknownTool
    \/ AgentDelta
    \/ \E calls \in Requests : AgentToolRequest(calls)
    \/ SubmitToolResult
    \/ AgentFinished
    \/ AgentStreamEnds
    \/ AgentError

\* main: the request was sent, the first step is awaited
InitMain == InitAgent /\ run = Loop("polling")

SpecMain == InitMain /\ [][NextMain]_vars

\* one process runs one of the two binaries; the tool is called on its
\* own, without the loop of main
Init == (InitAgent \/ InitValidator) /\ run = NoLoop

\* storage never fails
Next == NextAgent \/ NextValidator

Spec == Init /\ [][Next]_vars

\* storage may fail
NextIO == Next \/ NextStorageFails

SpecIO == Init /\ [][NextIO]_vars

(* ---------------------------------------------------------------------- *)
(* Properties                                                              *)
(* ---------------------------------------------------------------------- *)
\* the start positions at which pat occurs in text, overlapping ones included
Occurrences(text, pat) ==
    {p \in 1..(Len(text) - Len(pat) + 1) : StartsAt(text, pat, p)}

FileUnchanged == file_exists = pre_exists /\ file_content = pre_content

\* the last operation examined was well-formed
WellFormedEdit == outcome # "none" /\ edit.has_old /\ edit.has_new

\* the text the last successful operation left, before normalisation
EditedText ==
    IF outcome = "created" THEN edit.new_string
    ELSE Replacen1(before, edit.old_string, edit.new_string)

\* C1: whatever edit_wsl wrote is the text it validated, that text has no
\* blocking error and it is what the file holds; a file that was absent or
\* valid before the first call is absent or valid in every state.
C1_WrittenTextIsValidated ==
    /\ written.done =>
          /\ validated.done
          /\ written.text = validated.text
          /\ is_valid(validate(written.text))
          /\ file_exists /\ file_content = written.text
    /\ init_valid => (~file_exists \/ is_valid(validate(file_content)))

\* a two-operation call created the file with a non-empty text
C1_Witness ==
    /\ written.done /\ ~pre_exists /\ edit_count = 2
    /\ written.text # <<>> /\ file_content = written.text

\* C2: a call whose final candidate text has a blocking error leaves the
\* file (or its absence) as it was and returns validation-failed.
C2_InvalidCandidateLeavesFile ==
    (validated.done /\ ~is_valid(validate(validated.text))) =>
        /\ FileUnchanged
        /\ ~written.done
        /\ result.kind = "validation_failed"
        /\ result.errors = validate(validated.text).errors

\* an existing file, a candidate that differs from it, a rejection
C2_Witness ==
    /\ result.kind = "validation_failed" /\ pre_exists
    /\ validated.done /\ validated.text # pre_content
    /\ result.errors # <<>>

EditErrorKinds == {"missing_old", "missing_new", "file_empty", "not_found", "ambiguous"}

\* C3: when an operation of a batch fails, nothing of the batch is
\* persisted: the file is as the call found it.
C3_FailedBatchPersistsNothing ==
    result.kind \in EditErrorKinds =>
        /\ pc = "idle"
        /\ FileUnchanged
        /\ ~written.done
        /\ ~validated.done

\* the second operation failed after the first changed the in-memory text
C3_Witness ==
    /\ result.kind \in EditErrorKinds /\ result.index = 2
    /\ pre_exists /\ before # pre_content

\* C4 (as stated): an operation is applied only if old_string occurs at
\* exactly one start position of the current text, overlapping
\* occurrences counted.
C4_AppliedOnlyAtOnePosition ==
    outcome = "replaced" => Cardinality(Occurrences(before, edit.old_string)) = 1

\* C5 (as stated): an empty old_string is accepted only as the first
\* operation of the batch, on an empty text.
C5_EmptyOldOnlyFirst ==
    (outcome \in {"created", "replaced"} /\ edit.old_string = <<>>) =>
        (i = 1 /\ before = <<>>)

\* C6 (as stated): a persisted text is empty or ends with exactly one
\* line terminator.
C6_ExactlyOneTerminator ==
    written.done =>
        \/ written.text = <<>>
        \/ /\ EndsWithNewline(written.text)
           /\ ~EndsWithNewline(SubSeq(written.text, 1, Len(written.text) - 1))

\* C6 (amended): a persisted text is empty or ends with a line terminator;
\* one is appended when the edited text lacks it, nothing else is changed.
C6_EndsWithTerminator ==
    written.done =>
        /\ written.text = <<>> \/ EndsWithNewline(written.text)
        /\ written.text \in {EditedText, Append(EditedText, NL)}
        /\ (EditedText = <<>> \/ EndsWithNewline(EditedText)) => written.text = EditedText

\* the edited text lacked its last newline and was persisted with it
C6_Witness ==
    /\ written.done /\ outcome = "replaced"
    /\ ~EndsWithNewline(EditedText)
    /\ written.text = Append(EditedText, NL)

\* C7: the fate of an operation is decided on the text the preceding
\* operations of the batch left, not on the text read from the file.
C7_DecidedOnCurrentText ==
    /\ outcome = "not_found" => Occurrences(before, edit.old_string) = {}
    /\ outcome = "replaced" => Occurrences(before, edit.old_string) # {}
    /\ outcome = "ambiguous" => Cardinality(Occurrences(before, edit.old_string)) >= 2
    /\ (pc = "loop" /\ outcome = "replaced") => content = EditedText
    /\ (pc = "loop" /\ i = 0) => content = (IF pre_exists THEN pre_content ELSE <<>>)

\* an old_string ambiguous in the file became unique through the first
\* operation and the second operation replaced it
C7_Witness ==
    /\ outcome = "replaced" /\ i = 2 /\ pre_exists
    /\ Cardinality(Occurrences(pre_content, edit.old_string)) >= 2
    /\ Cardinality(Occurrences(before, edit.old_string)) = 1

\* C8 (as stated): an old_string with no occurrence in the current text,
\* the empty text included, gets a not-found error, the file unchanged.
C8_ZeroOccurrencesNotFound ==
    (WellFormedEdit /\ Occurrences(before, edit.old_string) = {}) =>
        (pc = "idle" /\ result.kind = "not_found" /\ FileUnchanged)

\* C8 (amended): an old_string with no occurrence in the current text
\* ends the call with the file unchanged: with a not-found error naming
\* the operation when the text is not empty, with the file-is-empty error
\* naming the operation when it is.
C8_ZeroOccurrencesRejected ==
    (WellFormedEdit /\ Occurrences(before, edit.old_string) = {}) =>
        /\ pc = "idle"
        /\ result.kind = (IF before = <<>> THEN "file_empty" ELSE "not_found")
        /\ result.index = i
        /\ FileUnchanged

\* the second operation was not found in the text the first one left
C8_Witness ==
    /\ result.kind = "not_found" /\ result.index = 2
    /\ before # pre_content
    /\ Occurrences(pre_content, edit.old_string) # {}

\* C9 (as stated): an old_string that occurs more than once in the
\* current text gets an ambiguous-match error naming the number of its
\* occurrences, the file unchanged.
C9_AmbiguousNamesOccurrences ==
    (WellFormedEdit /\ Cardinality(Occurrences(before, edit.old_string)) > 1) =>
        /\ pc = "idle"
        /\ result.kind = "ambiguous"
        /\ result.count = Cardinality(Occurrences(before, edit.old_string))
        /\ FileUnchanged

\* C10: a candidate text without blocking error is persisted and the call
\* returns success with every warning of the validator, however many.
C10_WarningsNeverBlock ==
    (validated.done /\ is_valid(validate(validated.text))) =>
        /\ file_exists /\ file_content = validated.text
        /\ written.done
        /\ result.kind = "ok"
        /\ result.warnings = validate(validated.text).warnings

\* a candidate with a warning replaced a different stored text
C10_Witness ==
    /\ result.kind = "ok" /\ result.warnings # <<>>
    /\ pre_exists /\ file_content # pre_content
    /\ file_content = validated.text

\* the kinds of result that report a refused request or a rejected text
RefusalKinds ==
    EditErrorKinds \cup {"edits_required", "edits_empty", "validation_failed"}

\* C11: a call reads the file at most once and writes it at most once;
\* the write comes after the last operation was applied and the gate
\* found no blocking error; a call that answers with a request or
\* validation error has written nothing.
C11_OneReadOneWrite ==
    /\ io.reads <= 1 /\ io.writes <= 1
    /\ pc = "loop" => io.writes = 0
    /\ io.writes = 1 =>
          /\ pc = "idle"
          /\ i = edit_count
          /\ outcome \in {"created", "replaced"}
          /\ validated.done
          /\ is_valid(validate(validated.text))
          /\ result.kind \in {"ok", "write_error"}
    /\ io.writes = 0 => (FileUnchanged /\ ~written.done)
    /\ result.kind \in RefusalKinds => io.writes = 0

\* a two-operation call read the file once and replaced it once
C11_Witness ==
    /\ result.kind = "ok" /\ edit_count = 2
    /\ io.reads = 1 /\ io.writes = 1
    /\ file_content # pre_content

\* the number of lines of the stored document when the call arrived
PreLineCount == Len(SplitLines(pre_content))

Terminated(text) ==
    IF text # <<>> /\ text[Len(text)] # NL THEN text \o <<NL>> ELSE text

\* C13: a first operation with an empty old_string on an absent or empty
\* document makes the text exactly new_string; when it is the only
\* operation and new_string has no blocking error the call succeeds and
\* the file holds new_string, terminated.
C13_BootstrapCreates ==
    (outcome = "created" /\ i = 1) =>
        /\ before = <<>>
        /\ (~pre_exists \/ pre_content = <<>>)
        /\ pc = "loop" => content = edit.new_string
        /\ edit_count = 1 =>
              /\ pc = "idle"
              /\ validated.done /\ validated.text = Terminated(edit.new_string)
              /\ IF is_valid(validate(edit.new_string))
                 THEN /\ result.kind = "ok"
                      /\ file_exists
                      /\ file_content = Terminated(edit.new_string)
                 ELSE result.kind = "validation_failed" /\ FileUnchanged

\* a document without a last newline created the absent file
C13_Witness ==
    /\ outcome = "created" /\ i = 1 /\ edit_count = 1
    /\ ~pre_exists
    /\ edit.new_string # <<>> /\ ~EndsWithNewline(edit.new_string)
    /\ result.kind = "ok"
    /\ file_content = Append(edit.new_string, NL)

\* the last call was refused: nothing validated, nothing written
Refused == pc = "idle" /\ ~validated.done /\ io.writes = 0 /\ FileUnchanged

\* C14: a call without 'edits' array, with an empty one, or that reaches
\* an operation lacking old_string or new_string is answered with the
\* error that names what is missing (and the 1-based index of the
\* operation); the text is not validated and the file is unchanged,
\* also when earlier operations of the call were applied in memory.
C14_MissingFieldRefused ==
    /\ params.shape \in {"none", "edits_not_array"} =>
          (result.kind = "edits_required" /\ Refused)
    /\ (params.shape = "patch" /\ params.n = 0) =>
          (result.kind = "edits_empty" /\ Refused)
    /\ (outcome # "none" /\ ~edit.has_old) =>
          (result.kind = "missing_old" /\ result.index = i /\ Refused)
    /\ (outcome # "none" /\ edit.has_old /\ ~edit.has_new) =>
          (result.kind = "missing_new" /\ result.index = i /\ Refused)

\* the second operation lacks new_string, the first one had changed
\* the text in memory
C14_Witness ==
    /\ result.kind = "missing_new" /\ result.index = 2
    /\ pre_exists /\ before # pre_content
    /\ FileUnchanged

\* C15 (as stated): a storage failure is answered as such and nothing is
\* written in part: after a read error nothing was written, after a write
\* error the file is what it was before the call.
C15_IoFailureLeavesFile ==
    /\ result.kind = "read_error" =>
          (io.writes = 0 /\ ~validated.done /\ FileUnchanged)
    /\ result.kind = "write_error" =>
          (validated.done /\ is_valid(validate(validated.text)) /\ FileUnchanged)

\* C16 (as stated): a result that reports diagnostics lists every error
\* and every warning of the validator, in order: so does a
\* validation-failed answer of edit_wsl for its candidate text, and the
\* validator command line for an invalid document.
C16_EveryErrorAndWarningListed ==
    /\ result.kind = "validation_failed" =>
          /\ result.errors = validate(validated.text).errors
          /\ result.warnings = validate(validated.text).warnings
    /\ cli.report = "invalid" =>
          /\ cli.errors = validate(input).errors
          /\ cli.warnings = validate(input).warnings

\* C16 (amended): every error is listed wherever errors are reported;
\* the warnings are listed by a successful edit_wsl answer and by the
\* validator command line, and by no validation-failed answer of edit_wsl.
C16_ErrorsListedWarningsOnSuccess ==
    /\ result.kind = "validation_failed" =>
          /\ result.errors = validate(validated.text).errors
          /\ result.errors # <<>>
          /\ result.warnings = <<>>
    /\ result.kind = "ok" =>
          /\ result.errors = <<>>
          /\ result.warnings = validate(validated.text).warnings
    /\ cli.report = "invalid" =>
          /\ cli.errors = validate(input).errors
          /\ cli.errors # <<>>
          /\ cli.warnings = validate(input).warnings
    /\ cli.report = "valid" =>
          /\ cli.errors = <<>> /\ validate(input).errors = <<>>
          /\ cli.warnings = validate(input).warnings

\* a rejected candidate text that also has a warning
C16_Witness ==
    /\ result.kind = "validation_failed"
    /\ validate(validated.text).warnings # <<>>
    /\ result.errors = validate(validated.text).errors

\* C17: a run of the validator on standard input or on a path exits
\* with 0 exactly when the input was read and its validation result has
\* no error; warnings and the extension of the path change nothing; an
\* input that is missing or unreadable exits non-zero and is not
\* reported valid.
C17_ExitZeroIffValid ==
    cli.mode \in {"stdin", "file"} =>
        /\ cli.exit \in {0, 1}
        /\ cli.exit = 0 <=> (cli.read_ok /\ validate(input).errors = <<>>)
        /\ cli.report = "valid" <=> cli.exit = 0
        /\ ~cli.read_ok => cli.report \in {"stdin_error", "not_found", "read_error"}

\* a document with a warning, in a file of another extension, exits 0
C17_Witness ==
    /\ cli.mode = "file" /\ cli.ext_warning /\ cli.read_ok
    /\ cli.warnings # <<>>
    /\ cli.exit = 0

\* the role of line k of a document
RoleOf(ls, k) == ClassifyLine(ls[k])

\* every line has a correct indentation and prefix
EveryLineWellFormed(ls) == \A k \in 1..Len(ls) : RoleOf(ls, k) # "Malformed"

\* every concept line is followed by a facet line before the next concept
EveryConceptHasFacet(ls) ==
    \A k \in 1..Len(ls) : RoleOf(ls, k) = "Concept" =>
        \E j \in (k + 1)..Len(ls) :
            /\ RoleOf(ls, j) = "Facet"
            /\ \A m \in (k + 1)..(j - 1) : RoleOf(ls, m) # "Concept"

\* every facet line is followed by a claim line before the next facet or
\* concept
EveryFacetHasClaim(ls) ==
    \A k \in 1..Len(ls) : RoleOf(ls, k) = "Facet" =>
        \E j \in (k + 1)..Len(ls) :
            /\ RoleOf(ls, j) = "Claim"
            /\ \A m \in (k + 1)..(j - 1) : RoleOf(ls, m) \notin {"Concept", "Facet"}

WellStructured(text) ==
    /\ EveryLineWellFormed(SplitLines(text))
    /\ EveryConceptHasFacet(SplitLines(text))
    /\ EveryFacetHasClaim(SplitLines(text))

\* no facet line before the first concept, no claim line before the first
\* facet of its concept
NoOrphanLine(ls) ==
    /\ \A k \in 1..Len(ls) : RoleOf(ls, k) = "Facet" =>
          \E j \in 1..(k - 1) : RoleOf(ls, j) = "Concept"
    /\ \A k \in 1..Len(ls) : RoleOf(ls, k) = "Claim" =>
          \E j \in 1..(k - 1) :
              /\ RoleOf(ls, j) = "Facet"
              /\ \A m \in (j + 1)..(k - 1) : RoleOf(ls, m) # "Concept"

\* the separators of every claim are in order and its references have
\* the form Concept.facet
InlineWellFormed(ls) ==
    \A k \in 1..Len(ls) : RoleOf(ls, k) = "Claim" =>
        /\ ParseInline(Residual(ls[k], "Claim")).ok
        /\ ParseInline(Residual(ls[k], "Claim")).refs_ok

FullyWellFormed(text) ==
    /\ WellStructured(text)
    /\ NoOrphanLine(SplitLines(text))
    /\ InlineWellFormed(SplitLines(text))

\* C18 (as stated): a document in which every concept has a facet, every
\* facet has a claim and every line has a correct indentation and prefix
\* has no error, and as a candidate text it is persisted.
C18_WellStructuredHasNoError ==
    /\ WellStructured(input) => validate(input).errors = <<>>
    /\ (validated.done /\ WellStructured(validated.text)) =>
          (result.kind = "ok" /\ file_content = validated.text)

\* C18 (amended): such a document has no error when, moreover, no facet
\* or claim line is orphaned and every claim has well-formed inline
\* syntax and references; the validator reports it valid and as a
\* candidate text it is persisted.
C18_FullyWellFormedHasNoError ==
    /\ FullyWellFormed(input) =>
          /\ validate(input).errors = <<>>
          /\ cli.read_ok => (cli.report = "valid" /\ cli.exit = 0)
    /\ (validated.done /\ FullyWellFormed(validated.text)) =>
          (result.kind = "ok" /\ file_exists /\ file_content = validated.text)

\* the validator ran on a document of one concept, one facet, one claim
C18_Witness ==
    /\ cli.read_ok /\ cli.report = "valid"
    /\ FullyWellFormed(input)
    /\ \E k \in 1..Len(SplitLines(input)) : RoleOf(SplitLines(input), k) = "Claim"

\* the text made of what precedes position p of text, then new, then
\* what follows the n characters at p
SpanReplaced(text, p, n, new) ==
    [k \in 1..(Len(text) - n + Len(new)) |->
        IF k < p THEN text[k]
        ELSE IF k < p + Len(new) THEN new[k - p + 1]
        ELSE text[k - Len(new) + n]]

\* C19: an applied operation changes the matched span only: the text
\* it leaves is the text before it with one occurrence of old_string
\* replaced by new_string, every character before and after that
\* occurrence kept; with an empty new_string the span is removed.
C19_OnlyMatchedSpanChanges ==
    outcome = "replaced" =>
        \E p \in Occurrences(before, edit.old_string) :
            /\ pc = "loop" =>
                  content = SpanReplaced(before, p, Len(edit.old_string), edit.new_string)
            /\ pc = "idle" =>
                  /\ validated.done
                  /\ validated.text \in
                        { SpanReplaced(before, p, Len(edit.old_string), edit.new_string),
                          Append(SpanReplaced(before, p, Len(edit.old_string),
                                              edit.new_string), NL) }

\* a line in the middle of the text was deleted, the lines around it kept
C19_Witness ==
    /\ outcome = "replaced" /\ pc = "loop"
    /\ edit.new_string = <<>>
    /\ FirstMatch(before, edit.old_string) > 1
    /\ FirstMatch(before, edit.old_string) + Len(edit.old_string) <= Len(before)
    /\ Len(content) = Len(before) - Len(edit.old_string)

\* an operation was applied
Applied == outcome \in {"created", "replaced"}

\* the state after i operations: all applied while the loop runs; an
\* error names operation i, the one examined last, which changed
\* nothing; an answer of the gate follows the last operation
StoppedAtFailure ==
    /\ (pc = "loop" /\ i > 0) => Applied
    /\ result.kind \in EditErrorKinds =>
          /\ pc = "idle"
          /\ outcome = result.kind
          /\ result.index = i /\ i >= 1 /\ i <= edit_count
          /\ content = before
    /\ result.kind \in {"ok", "validation_failed"} =>
          (pc = "idle" /\ i = edit_count /\ Applied)

\* the operations are examined one at a time in list order, and none
\* once the call has answered: the next examination is that of the
\* first operation of another call
ExaminedInOrder ==
    /\ pc = "loop" => i' = i + 1
    /\ pc = "idle" => i' = 0

\* C20: a batch stops at its first failing operation: the error names
\* the 1-based index of the first operation that is malformed, not found
\* or ambiguous, every operation before it was applied, and no later
\* operation is examined or applied.
C20_StopsAtFirstFailure == [](StoppedAtFailure) /\ [][ExaminedInOrder]_vars

\* the second of two operations was ambiguous after the first applied
C20_Witness ==
    /\ result.kind = "ambiguous" /\ result.index = 2 /\ edit_count = 2
    /\ before # pre_content

\* the results submitted for the last request, so far, are those of its
\* first calls, one each, under their call_ids
SubmittedInOrder ==
    /\ Len(run.submitted) + Len(run.queue) = Len(run.request)
    /\ run.queue = SubSeq(run.request, Len(run.submitted) + 1, Len(run.request))
    /\ \A k \in 1..Len(run.submitted) :
          run.submitted[k].call_id = run.request[k].call_id

\* C21: the tool calls of a ToolRequest are handled one at a time in
\* list order; each gets one result, submitted under its own call_id,
\* before the next step of the agent is awaited; a handler runs only for
\* the call at hand, and a call finds the file as the call before it
\* left it.
C21_CallsHandledInOrder ==
    /\ SubmittedInOrder
    /\ run.phase \in {"polling", "finished", "failed"} =>
          (run.queue = <<>> /\ ~run.running /\ pc = "idle")
    /\ run.running =>
          /\ run.phase = "request"
          /\ run.current = run.request[Len(run.submitted) + 1]
    /\ pc = "loop" => (run.running /\ run.current.name = "edit_wsl")
    /\ (run.running /\ run.submitted # <<>>) =>
          /\ pre_exists = run.left.exists
          /\ pre_content = run.left.content

\* the second of two edit_wsl calls replaced what the first had written
C21_Witness ==
    /\ Len(run.request) = 2
    /\ run.request[1].name = "edit_wsl" /\ run.request[2].name = "edit_wsl"
    /\ Len(run.submitted) = 1 /\ run.submitted[1].kind = "ok"
    /\ run.running /\ result.kind = "ok"
    /\ file_content # run.left.content

\* C22 (as stated): "WSL file updated" is printed only on a run in which
\* an edit_wsl call persisted a document; a run ended by an agent error
\* exits with 1 and does not print it.
C22_UpdatedPrintedOnlyIfPersisted ==
    /\ run.printed => run.persisted
    /\ run.phase = "failed" => (~run.printed /\ run.exit = 1)

\* the call at hand has returned and is one of that tool
Returned(name) == run.running /\ pc = "idle" /\ run.current.name = name

\* C23: a read_wsl call and a call of an unknown tool leave the file, or
\* its absence, as it was; read_wsl answers that a missing file does not
\* exist yet and does not create it, and lists the lines of a file that
\* exists.
C23_ReadAndUnknownLeaveFile ==
    /\ (Returned("read_wsl") \/ Returned("other_tool")) =>
          /\ FileUnchanged
          /\ io.writes = 0 /\ ~written.done /\ ~validated.done
    /\ Returned("other_tool") => result.kind = "unknown_tool"
    /\ Returned("read_wsl") =>
          IF pre_exists
          THEN /\ result.kind \in {"listing", "read_error"}
               /\ result.kind = "listing" =>
                     result.count = Len(SplitLines(file_content))
          ELSE result.kind = "file_missing" /\ ~file_exists

\* read_wsl was called when no file existed
C23_Witness ==
    /\ Returned("read_wsl")
    /\ ~pre_exists /\ ~file_exists
    /\ result.kind = "file_missing"

====
